---------------------------- MODULE Spec2Model ----------------------------
(***************************************************************************)
(* Dice notation parser and roll engine of src/main.py.                    *)
(*                                                                         *)
(* Strings are sequences of one-character strings, so that strip, the      *)
(* regular expression, int() and the f-string formatting are computed and  *)
(* not assumed.  An Optional value is a sequence of length at most one     *)
(* (<<>> is None).                                                         *)
(***************************************************************************)
EXTENDS Integers, Sequences, FiniteSets, TLC

VARIABLES calls, obj

vars == <<calls, obj>>

---------------------------------------------------------------------------
(* Bounds of the model *)

\* threads of the server that may each be inside one tool call
NumThreads == 2
\* seeds a caller supplies: 0..MaxSeed and their negatives
MaxSeed == 1
\* values the system entropy source may hand to an unseeded generator
MaxEntropy == 1
\* every string over Alphabet of at most this length is an input
MaxLen == 4
\* modifiers -MaxMod..MaxMod are given to the Roll constructor directly
MaxMod == 2

---------------------------------------------------------------------------
(* Characters, int() and str() *)

DigitChars == <<"0", "1", "2", "3", "4", "5", "6", "7", "8", "9">>

Digits == {DigitChars[k] : k \in 1..10}

Whitespace == {" ", "\t", "\n"}

DigitVal(c) == (CHOOSE k \in 1..10 : DigitChars[k] = c) - 1

\* int(s) of a non-empty digit string
RECURSIVE int(_)
int(s) ==
  IF s = <<>> THEN 0
  ELSE 10 * int(SubSeq(s, 1, Len(s) - 1)) + DigitVal(s[Len(s)])

RECURSIVE StrNat(_)
StrNat(n) ==
  IF n < 10 THEN <<DigitChars[n + 1]>>
  ELSE StrNat(n \div 10) \o <<DigitChars[(n % 10) + 1]>>

\* f"{n}" of an int
str(n) == IF n < 0 THEN <<"-">> \o StrNat(-n) ELSE StrNat(n)

abs(n) == IF n < 0 THEN -n ELSE n

\* str.strip(): drops leading and trailing whitespace
RECURSIVE lstrip(_)
lstrip(s) ==
  IF s # <<>> /\ s[1] \in Whitespace THEN lstrip(Tail(s)) ELSE s

RECURSIVE rstrip(_)
rstrip(s) ==
  IF s # <<>> /\ s[Len(s)] \in Whitespace
  THEN rstrip(SubSeq(s, 1, Len(s) - 1))
  ELSE s

strip(s) == rstrip(lstrip(s))

---------------------------------------------------------------------------
(* Errors *)

NoError == [type |-> "", msg |-> "", fields |-> {}]

InvalidNotation ==
  [type |-> "ValueError", msg |-> "Invalid dice notation", fields |-> {}]

InvalidSides ==
  [type |-> "ValueError", msg |-> "Invalid count of sides", fields |-> {}]

InvalidOperator ==
  [type |-> "ValueError", msg |-> "Invalid modifier operator", fields |-> {}]

ValidationError(fs) ==
  [type |-> "ValidationError", msg |-> "validation error for Roll",
   fields |-> fs]

---------------------------------------------------------------------------
(* class Roll: the validated model *)

MinCount == 1
MaxCount == 1000
MinSides == 2
MaxSides == 1000

NoRoll == [none |-> TRUE]

\* Roll with the le= constraints left out
RollNoUpperBound(count, sides, modifier) ==
  LET bad == (IF count < MinCount THEN {"count"} ELSE {})
             \cup (IF sides < MinSides THEN {"sides"} ELSE {})
  IN IF bad = {}
     THEN [roll |-> [count |-> count, sides |-> sides, modifier |-> modifier],
           error |-> NoError]
     ELSE [roll |-> NoRoll, error |-> ValidationError(bad)]

\* Roll(count=, sides=, modifier=): the object, or pydantic's ValidationError
\* naming the fields whose Field(ge=, le=) constraint the arguments break
Roll(count, sides, modifier) ==
  LET bad == (IF count < MinCount \/ count > MaxCount
              THEN {"count"} ELSE {})
             \cup (IF sides < MinSides \/ sides > MaxSides
                   THEN {"sides"} ELSE {})
  IN IF bad = {}
     THEN [roll |-> [count |-> count, sides |-> sides, modifier |-> modifier],
           error |-> NoError]
     ELSE [roll |-> NoRoll, error |-> ValidationError(bad)]

\* dice_txt with the noun never singular
DiceTxt_AlwaysDice(count) == <<"d", "i", "c", "e">>

\* dice_txt = "dice" if self.count > 1 else "die"
DiceTxt(count) ==
  IF count > 1 THEN <<"d", "i", "c", "e">> ELSE <<"d", "i", "e">>

\* Roll.as_text
as_text(self) ==
  LET dice_txt == DiceTxt(self.count)
      count_text == <<"R", "o", "l", "l", " ">> \o str(self.count) \o <<" ">>
                    \o str(self.sides)
                    \o <<" ", "s", "i", "d", "e", "d", " ">> \o dice_txt
      mod_text ==
        IF self.modifier # 0
        THEN IF self.modifier < 0
             THEN <<",", " ", "s", "u", "b", "t", "r", "a", "c", "t", " ">>
                  \o str(abs(self.modifier))
                  \o <<" ", "f", "r", "o", "m", " ", "t", "h", "e", " ",
                       "r", "e", "s", "u", "l", "t", ".">>
             ELSE <<",", " ", "a", "d", "d", " ">> \o str(self.modifier)
                  \o <<" ", "t", "o", " ", "t", "h", "e", " ",
                       "r", "e", "s", "u", "l", "t", ".">>
        ELSE <<".">>
  IN count_text \o mod_text

\* mod with "+" put before a negative modifier too
ModSuffix_PlusAlways(modifier) ==
  IF modifier # 0 THEN <<"+">> \o str(modifier) ELSE <<>>

\* mod with the modifier left out
ModSuffix_Dropped(modifier) == <<>>

\* the local mod of _generate_notation
ModSuffix(modifier) ==
  IF modifier > 0 THEN <<"+">> \o str(modifier)
  ELSE IF modifier < 0 THEN str(modifier)
  ELSE <<>>

\* _generate_notation with count and sides exchanged
_generate_notation_Swapped(self) ==
  str(self.sides) \o <<"d">> \o str(self.count) \o ModSuffix(self.modifier)

\* Roll._generate_notation
_generate_notation(self) ==
  str(self.count) \o <<"d">> \o str(self.sides) \o ModSuffix(self.modifier)

---------------------------------------------------------------------------
(* DICE_REGEX and parse_notation *)

\* the first position at or after p that holds no digit: the end of a
\* greedy \d+ starting at p
RECURSIVE SpanDigits(_, _)
SpanDigits(s, p) ==
  IF p <= Len(s) /\ s[p] \in Digits THEN SpanDigits(s, p + 1) ELSE p

\* the pattern without its "$"
AtEnd_Anywhere(s, p) == TRUE

\* "$" without re.MULTILINE: the end of the string, or just before a
\* newline that ends it
AtEnd(s, p) == p = Len(s) + 1 \/ (p = Len(s) /\ s[p] = "\n")

\* DICE_REGEX.match(s) for ^(\d+)?d(\d+)(?:([+-])(\d+))?$ with IGNORECASE.
\* A group that took no part in the match (None) is <<>>; a group that
\* took part is never empty.
DICE_REGEX(s) ==
  LET p1 == SpanDigits(s, 1)
      hasD == p1 <= Len(s) /\ s[p1] \in {"d", "D"}
      p2 == SpanDigits(s, p1 + 1)
      hasOp == p2 <= Len(s) /\ s[p2] \in {"+", "-"}
      p3 == SpanDigits(s, p2 + 1)
      hasMod == hasOp /\ p3 > p2 + 1
      stop == IF hasMod THEN p3 ELSE p2
  IN IF hasD /\ p2 > p1 + 1 /\ AtEnd(s, stop)
     THEN [matched |-> TRUE,
           g1 |-> SubSeq(s, 1, p1 - 1),
           g2 |-> SubSeq(s, p1 + 1, p2 - 1),
           g3 |-> IF hasMod THEN <<s[p2]>> ELSE <<>>,
           g4 |-> IF hasMod THEN SubSeq(s, p2 + 1, p3 - 1) ELSE <<>>]
     ELSE [matched |-> FALSE, g1 |-> <<>>, g2 |-> <<>>, g3 |-> <<>>,
           g4 |-> <<>>]

\* the match statement without the "-" case
ApplyOperator_NeverNegates(operator, magnitude) == magnitude

\* the match statement on the operator
ApplyOperator(operator, magnitude) ==
  IF operator = <<"+">> THEN magnitude * 1 ELSE magnitude * (-1)

parse_notation(notation) ==
  LET m == DICE_REGEX(strip(notation))
      count == IF m.g1 = <<>> THEN 1 ELSE int(m.g1)
      sides == int(m.g2)
      operator == m.g3
      modifier == IF operator # <<>>
                  THEN ApplyOperator(operator, int(m.g4))
                  ELSE 0
  IN IF ~m.matched THEN [roll |-> NoRoll, error |-> InvalidNotation]
     ELSE IF sides <= 1 THEN [roll |-> NoRoll, error |-> InvalidSides]
     ELSE IF operator # <<>> /\ operator \notin {<<"+">>, <<"-">>}
     THEN [roll |-> NoRoll, error |-> InvalidOperator]
     ELSE Roll(count, sides, modifier)

---------------------------------------------------------------------------
(* random.Random: a deterministic generator behind randint.  The Mersenne  *)
(* Twister is abstracted to a full-period linear congruential generator of *)
(* RngBits bits; seeding, getrandbits and the rejection loop of _randbelow *)
(* keep their shape.                                                       *)

RngBits == 10
LcgA == 405
LcgC == 119

RngSize == 2 ^ RngBits

Advance(s) == (LcgA * s + LcgC) % RngSize

\* random.Random(n) for an int n seeds from abs(n)
SeedState(n) == (abs(n) * 193 + 71) % RngSize

\* random.Random() seeds from the system entropy source
EntropyState(e) == (e * 389 + 5) % RngSize

RECURSIVE bit_length(_)
bit_length(n) == IF n = 0 THEN 0 ELSE 1 + bit_length(n \div 2)

\* Random._randbelow(n): k = n.bit_length(); r = getrandbits(k) until r < n
RECURSIVE _randbelow(_, _)
_randbelow(s, n) ==
  LET s1 == Advance(s)
      r == s1 \div (2 ^ (RngBits - bit_length(n)))
  IN IF r < n THEN [rng |-> s1, value |-> r] ELSE _randbelow(s1, n)

\* Random.randint(a, b): a + _randbelow(b - a + 1)
randint(s, a, b) ==
  LET d == _randbelow(s, b - a + 1) IN [rng |-> d.rng, value |-> a + d.value]

\* _roll_single drawing from 0
_roll_single_FromZero(self, rng) == randint(rng, 0, self.sides)

\* Roll._roll_single
_roll_single(self, rng) == randint(rng, 1, self.sides)

\* "if seed" in place of "if seed is not None"
NewRandom_Truthy(seed, e) ==
  IF seed # <<>> /\ seed[1] # 0 THEN SeedState(seed[1]) ELSE EntropyState(e)

\* random.Random(seed) if seed is not None else random.Random()
NewRandom(seed, e) ==
  IF seed # <<>> THEN SeedState(seed[1]) ELSE EntropyState(e)

---------------------------------------------------------------------------
(* The tool calls.  calls[i] is the frame of the call thread i is in.      *)

Threads == 1..NumThreads

Seeds == {<<>>} \cup {<<n>> : n \in (-MaxSeed)..MaxSeed}

Entropy == 0..MaxEntropy

NoResult == [none |-> TRUE]

Idle ==
  [pc |-> "idle", handler |-> "", notation |-> <<>>, seed |-> <<>>,
   self |-> NoRoll, error |-> NoError, rng |-> 0, rng0 |-> 0,
   out |-> <<>>, rolls |-> <<>>, total |-> 0, ndraws |-> 0,
   result |-> NoResult, text |-> <<>>]

\* one generator shared by every call
RngUsedBy_Shared(i) == 1

\* the generator a call draws from: the local rng of roll, handed to
\* Roll.roll
RngUsedBy(i) == i

\* the tool roll up to the loop of Roll.roll: parse, make the generator,
\* enter Roll.roll (notation, total and rolls are set)
roll(i, notation, seed, e) ==
  /\ calls[i].pc = "idle"
  /\ LET p == parse_notation(notation) IN
       IF p.error # NoError
       THEN calls' = [calls EXCEPT ![i] =
              [Idle EXCEPT !.pc = "raised", !.handler = "roll",
                           !.notation = notation, !.error = p.error]]
       ELSE LET rng == NewRandom(seed, e) IN
            calls' = [calls EXCEPT ![i] =
              [Idle EXCEPT !.pc = "loop", !.handler = "roll",
                           !.notation = notation, !.seed = seed,
                           !.self = p.roll, !.rng = rng, !.rng0 = rng,
                           !.out = _generate_notation(p.roll)]]
  /\ UNCHANGED obj

\* one iteration of "for _ in range(self.count)"
RollLoop(i) ==
  /\ calls[i].pc = "loop"
  /\ Len(calls[i].rolls) < calls[i].self.count
  /\ LET j == RngUsedBy(i)
         d == _roll_single(calls[i].self, calls[j].rng)
     IN calls' = [t \in Threads |->
          LET a == IF t = j THEN [calls[t] EXCEPT !.rng = d.rng]
                   ELSE calls[t]
          IN IF t = i
             THEN [a EXCEPT !.rolls = Append(@, d.value),
                            !.total = @ + d.value,
                            !.ndraws = @ + 1]
             ELSE a]
  /\ UNCHANGED obj

\* after the loop: the modified total, the explanation, the RollResult
RollReturn(i) ==
  /\ calls[i].pc = "loop"
  /\ Len(calls[i].rolls) >= calls[i].self.count
  /\ LET c == calls[i]
         modified_total == c.total + c.self.modifier
         notation_explained == as_text(c.self)
     IN calls' = [calls EXCEPT ![i] =
          [c EXCEPT !.pc = "done",
                    !.result = [notation |-> c.out,
                                notation_explained |-> notation_explained,
                                result |-> modified_total,
                                raw_total |-> c.total,
                                roll_results |-> c.rolls]]]
  /\ UNCHANGED obj

\* the resource explain://{dice_notation}
explain_notation(i, dice_notation) ==
  /\ calls[i].pc = "idle"
  /\ LET p == parse_notation(dice_notation) IN
       IF p.error # NoError
       THEN calls' = [calls EXCEPT ![i] =
              [Idle EXCEPT !.pc = "raised", !.handler = "explain_notation",
                           !.notation = dice_notation, !.error = p.error]]
       ELSE calls' = [calls EXCEPT ![i] =
              [Idle EXCEPT !.pc = "done", !.handler = "explain_notation",
                           !.notation = dice_notation, !.self = p.roll,
                           !.text = as_text(p.roll)]]
  /\ UNCHANGED obj

\* the response (a result or an error) is delivered and the frame is gone
Respond(i) ==
  /\ calls[i].pc \in {"done", "raised"}
  /\ calls' = [calls EXCEPT ![i] = Idle]
  /\ UNCHANGED obj

---------------------------------------------------------------------------
(* A Roll object used directly: construct, render, parse back.             *)

NoObj ==
  [pc |-> "new", args |-> <<>>, self |-> NoRoll, error |-> NoError,
   notation |-> <<>>, back |-> [roll |-> NoRoll, error |-> NoError]]

Construct(count, sides, modifier) ==
  /\ obj.pc = "new"
  /\ LET r == Roll(count, sides, modifier) IN
       obj' = [obj EXCEPT !.pc = IF r.error = NoError THEN "built"
                                 ELSE "invalid",
                          !.args = <<count, sides, modifier>>,
                          !.self = r.roll, !.error = r.error]
  /\ UNCHANGED calls

GenerateNotation ==
  /\ obj.pc = "built"
  /\ obj' = [obj EXCEPT !.pc = "rendered",
                        !.notation = _generate_notation(obj.self)]
  /\ UNCHANGED calls

ParseBack ==
  /\ obj.pc = "rendered"
  /\ obj' = [obj EXCEPT !.pc = "parsed",
                        !.back = parse_notation(obj.notation)]
  /\ UNCHANGED calls

---------------------------------------------------------------------------
(* Inputs *)

Alphabet == {"0", "1", "2", "d", "D", "+", "-", " ", "x"}

ShortInputs == UNION {[1..n -> Alphabet] : n \in 0..MaxLen}

Prefixes == {<<>>, <<" ">>, <<"\t", "\n">>, <<"x">>}

Suffixes == {<<>>, <<"\n">>, <<" ", " ">>, <<" ", "1">>, <<"+", "1">>}

CountStrs == {<<>>, <<"0">>, <<"1">>, <<"0", "3">>, <<"3", "6">>}

SidesStrs == {<<>>, <<"1">>, <<"6">>, <<"0", "2">>, <<"1", "2">>, <<"2", "0">>}

ModStrs ==
  {<<>>, <<"+", "0">>, <<"-", "0">>, <<"+", "2">>, <<"-", "1", "0">>,
   <<"+", "0", "5">>, <<"-">>, <<"*", "2">>, <<"+", " ", "2">>}

\* pad count d sides modifier pad, with small numbers
ShapedInputs ==
  {pre \o c \o dd \o s \o m \o post :
     pre \in Prefixes, c \in CountStrs, dd \in {<<"d">>, <<"D">>},
     s \in SidesStrs, m \in ModStrs, post \in Suffixes}

EdgeCountStrs == {<<"1", "0", "0", "0">>, <<"1", "0", "0", "1">>}

EdgeSidesStrs == {<<"1">>, <<"2">>, <<"1", "0", "0", "0">>,
                  <<"1", "0", "0", "1">>}

\* the numbers at the ends of the ranges
EdgeInputs ==
  {c \o <<"d">> \o s \o m :
     c \in EdgeCountStrs \cup {<<>>, <<"0">>}, s \in EdgeSidesStrs,
     m \in {<<>>, <<"-", "1", "0">>}}

ParseInputs == ShortInputs \cup ShapedInputs \cup EdgeInputs

ParseSeeds == {<<>>, <<0>>}

\* the notations of concurrent calls
RollNotations ==
  {<<"d", "2">>, <<" ", "2", "D", "3", "+", "1">>, <<"2", "d">>}

SampleCounts == {1, 2, 10, 1000}

SampleSides == {2, 6, 10, 1000}

Modifiers == ((-MaxMod)..MaxMod) \cup {-1000, -10, 10, 1000}

RollArgs ==
  (((MinCount - 1)..(MaxCount + 1)) \X SampleSides)
  \cup (SampleCounts \X ((MinSides - 2)..(MaxSides + 1)))

---------------------------------------------------------------------------
(* Specifications *)

Init ==
  /\ calls = [i \in Threads |-> Idle]
  /\ obj = NoObj

\* concurrent tool calls
Next ==
  \E i \in Threads :
    \/ /\ calls[i].pc = "idle"
       /\ \E notation \in RollNotations, seed \in Seeds, e \in Entropy :
            roll(i, notation, seed, e)
    \/ RollLoop(i)
    \/ RollReturn(i)
    \/ Respond(i)

Spec == Init /\ [][Next]_vars

\* one call at a time, over every input
NextParse ==
  \/ /\ calls[1].pc = "idle"
     /\ \E notation \in ParseInputs, seed \in ParseSeeds, e \in Entropy :
          roll(1, notation, seed, e)
  \/ RollLoop(1)
  \/ RollReturn(1)
  \/ /\ calls[1].pc = "idle"
     /\ \E notation \in ParseInputs : explain_notation(1, notation)

SpecParse == Init /\ [][NextParse]_vars

\* a Roll object built from its fields
NextRender ==
  \/ /\ obj.pc = "new"
     /\ \E a \in RollArgs, modifier \in Modifiers :
          Construct(a[1], a[2], modifier)
  \/ GenerateNotation
  \/ ParseBack

SpecRender == Init /\ [][NextRender]_vars

---------------------------------------------------------------------------
(* The notation grammar and the canonical forms, stated on their own       *)

AllDigits(ds) == \A k \in 1..Len(ds) : ds[k] \in Digits

\* the value of a digit string, digit by position
RECURSIVE PosSum(_, _)
PosSum(ds, k) ==
  IF k > Len(ds) THEN 0
  ELSE DigitVal(ds[k]) * (10 ^ (Len(ds) - k)) + PosSum(ds, k + 1)

Decimal(ds) == PosSum(ds, 1)

\* s without its surrounding whitespace
Trimmed(s) ==
  LET ink == {k \in 1..Len(s) : s[k] \notin Whitespace} IN
    IF ink = {} THEN <<>>
    ELSE SubSeq(s, CHOOSE a \in ink : \A k \in ink : a <= k,
                   CHOOSE b \in ink : \A k \in ink : k <= b)

\* t reads [COUNT] 'd' SIDES [('+'|'-') MAGNITUDE] with the 'd' at i and the
\* operator at j (j = Len(t) + 1: no modifier)
Reads(t, i, j) ==
  /\ t[i] \in {"d", "D"}
  /\ AllDigits(SubSeq(t, 1, i - 1))
  /\ j > i + 1
  /\ AllDigits(SubSeq(t, i + 1, j - 1))
  /\ \/ j = Len(t) + 1
     \/ /\ t[j] \in {"+", "-"}
        /\ j < Len(t)
        /\ AllDigits(SubSeq(t, j + 1, Len(t)))

\* the specs the grammar decodes from t: none, or one
Decoded(t) ==
  {[count |-> IF i = 1 THEN 1 ELSE Decimal(SubSeq(t, 1, i - 1)),
    sides |-> Decimal(SubSeq(t, i + 1, j - 1)),
    modifier |-> IF j = Len(t) + 1 THEN 0
                 ELSE IF t[j] = "+" THEN Decimal(SubSeq(t, j + 1, Len(t)))
                 ELSE 0 - Decimal(SubSeq(t, j + 1, Len(t)))] :
     <<i, j>> \in {ij \in (1..Len(t)) \X (1..(Len(t) + 1)) :
                     Reads(t, ij[1], ij[2])}}

InRange(r) ==
  /\ r.count >= 1 /\ r.count <= 1000
  /\ r.sides >= 2 /\ r.sides <= 1000

\* ds is n written in decimal with no sign and no leading zero
IsDecimalOf(ds, n) ==
  /\ ds # <<>>
  /\ AllDigits(ds)
  /\ Len(ds) > 1 => ds[1] # "0"
  /\ Decimal(ds) = n

\* w is "{count}d{sides}" followed by "+{modifier}", "{modifier}" or nothing
IsCanonical(w, r) ==
  \E i \in 1..Len(w) :
    /\ w[i] = "d"
    /\ IsDecimalOf(SubSeq(w, 1, i - 1), r.count)
    /\ LET rest == SubSeq(w, i + 1, Len(w)) IN
         IF r.modifier = 0 THEN IsDecimalOf(rest, r.sides)
         ELSE \E j \in 1..Len(rest) :
                /\ rest[j] = (IF r.modifier > 0 THEN "+" ELSE "-")
                /\ IsDecimalOf(SubSeq(rest, 1, j - 1), r.sides)
                /\ IsDecimalOf(SubSeq(rest, j + 1, Len(rest)),
                               abs(r.modifier))

\* the sentence of the explanation
Explained(r) ==
  LET noun == IF r.count = 1 THEN <<"d", "i", "e">>
              ELSE <<"d", "i", "c", "e">>
      suffix ==
        IF r.modifier = 0 THEN <<".">>
        ELSE IF r.modifier > 0
        THEN <<",", " ", "a", "d", "d", " ">> \o str(r.modifier)
             \o <<" ", "t", "o", " ", "t", "h", "e", " ", "r", "e", "s",
                  "u", "l", "t", ".">>
        ELSE <<",", " ", "s", "u", "b", "t", "r", "a", "c", "t", " ">>
             \o str(0 - r.modifier)
             \o <<" ", "f", "r", "o", "m", " ", "t", "h", "e", " ", "r",
                  "e", "s", "u", "l", "t", ".">>
  IN <<"R", "o", "l", "l", " ">> \o str(r.count) \o <<" ">> \o str(r.sides)
     \o <<" ", "s", "i", "d", "e", "d", " ">> \o noun \o suffix

IsRangeError(e) ==
  \/ e = InvalidSides
  \/ /\ e.type = "ValidationError"
     /\ e.fields # {}
     /\ e.fields \subseteq {"count", "sides"}

\* the sum of s[lo..hi], by halves
RECURSIVE SumRange(_, _, _)
SumRange(s, lo, hi) ==
  IF lo > hi THEN 0
  ELSE IF lo = hi THEN s[lo]
  ELSE LET mid == (lo + hi) \div 2
       IN SumRange(s, lo, mid) + SumRange(s, mid + 1, hi)

\* n draws in a row for spec r from generator state s
RECURSIVE Replay(_, _, _)
Replay(r, s, n) ==
  IF n = 0 THEN [rng |-> s, rolls |-> <<>>]
  ELSE LET before == Replay(r, s, n - 1)
           d == _roll_single(r, before.rng)
       IN [rng |-> d.rng, rolls |-> Append(before.rolls, d.value)]

\* the result of roll(notation, seed) when nothing else runs
Alone(notation, seed) ==
  LET r == parse_notation(notation).roll
      draws == Replay(r, NewRandom(seed, 0), r.count).rolls
      sum == SumRange(draws, 1, Len(draws))
  IN [notation |-> _generate_notation(r),
      notation_explained |-> as_text(r),
      result |-> sum + r.modifier,
      raw_total |-> sum,
      roll_results |-> draws]

---------------------------------------------------------------------------
(* Claims *)

\* C1: an input that, trimmed, reads as the grammar with count in [1,1000]
\* and sides in [2,1000] is parsed without error into the spec whose count
\* is the decoded COUNT (1 when absent), whose sides is the decoded SIDES and
\* whose modifier is +MAGNITUDE, -MAGNITUDE or 0.
C1_ParseDecodes ==
  LET c == calls[1] IN
    c.pc # "idle" =>
      \A r \in Decoded(Trimmed(c.notation)) :
        InRange(r) => c.error = NoError /\ c.self = r

C1_Witness ==
  /\ calls[1].pc = "done"
  /\ calls[1].notation = <<" ", "3", "6", "D", "1", "2", "-", "1", "0", "\n">>
  /\ calls[1].self = [count |-> 36, sides |-> 12, modifier |-> -10]

\* C2: an input that, trimmed, does not read as the whole grammar fails with
\* the invalid-notation error and yields no spec and no result.
C2_NoPartialParse ==
  LET c == calls[1] IN
    (c.pc # "idle" /\ Decoded(Trimmed(c.notation)) = {}) =>
      /\ c.pc = "raised"
      /\ c.error = InvalidNotation
      /\ c.self = NoRoll
      /\ c.result = NoResult
      /\ c.text = <<>>

C2_Witness ==
  /\ calls[1].pc = "raised"
  /\ calls[1].notation = <<"d", "6", "+", "2", "+", "1">>
  /\ calls[1].error = InvalidNotation

\* C3: an input that reads as the grammar with count or sides out of range
\* fails with a range error, which is not the invalid-notation error, and
\* yields no spec; no spec with count outside [1,1000] or sides outside
\* [2,1000] exists in any state.
C3_RangeRejected ==
  LET c == calls[1] IN
    /\ c.pc # "idle" =>
         \A r \in Decoded(Trimmed(c.notation)) :
           ~InRange(r) =>
             /\ c.pc = "raised"
             /\ IsRangeError(c.error)
             /\ c.error # InvalidNotation
             /\ c.self = NoRoll
             /\ c.result = NoResult
    /\ c.self # NoRoll => InRange(c.self)

C3_Witness ==
  /\ calls[1].pc = "raised"
  /\ calls[1].notation = <<"1", "0", "0", "1", "d", "2">>
  /\ calls[1].error = ValidationError({"count"})

\* C4: Roll.roll never draws more than count times and every draw is in
\* [1, sides]; when it returns it has drawn exactly count times,
\* roll_results holds the draws in order with length count, raw_total is
\* their sum and result is raw_total + modifier.
C4_RollResult ==
  LET c == calls[1] IN
    c.handler = "roll" /\ c.pc \in {"loop", "done"} =>
      /\ c.ndraws = Len(c.rolls)
      /\ c.ndraws <= c.self.count
      /\ \A k \in 1..Len(c.rolls) :
           c.rolls[k] >= 1 /\ c.rolls[k] <= c.self.sides
      /\ c.pc = "done" =>
           /\ c.ndraws = c.self.count
           /\ c.result.roll_results = c.rolls
           /\ Len(c.result.roll_results) = c.self.count
           /\ c.result.raw_total
                = SumRange(c.result.roll_results, 1, c.self.count)
           /\ c.result.result = c.result.raw_total + c.self.modifier

C4_Witness ==
  /\ calls[1].pc = "done"
  /\ calls[1].handler = "roll"
  /\ calls[1].self = [count |-> 1000, sides |-> 1000, modifier |-> -10]
  /\ Len(calls[1].result.roll_results) = 1000

\* C5: two finished roll calls with the same notation and the same supplied
\* seed (0 included) hold results equal in every field, whatever calls ran
\* before or between them.
C5_SeedDeterminism ==
  \A i \in Threads, j \in Threads :
    ( /\ calls[i].pc = "done" /\ calls[j].pc = "done"
      /\ calls[i].notation = calls[j].notation
      /\ calls[i].seed # <<>>
      /\ calls[i].seed = calls[j].seed )
    => calls[i].result = calls[j].result

C5_Witness ==
  /\ calls[1].pc = "done" /\ calls[2].pc = "done"
  /\ calls[1].seed = <<0>> /\ calls[2].seed = <<0>>
  /\ calls[1].notation = calls[2].notation
  /\ Len(calls[1].result.roll_results) = 2

\* C6: for count in [1,1000] and sides in [2,1000], the Roll {count, sides,
\* 0} is constructed, and parsing its canonical notation succeeds with a
\* spec equal to {count, sides, 0}.
C6_RoundTrip ==
  LET r == [count |-> obj.args[1], sides |-> obj.args[2],
            modifier |-> obj.args[3]]
  IN (obj.pc # "new" /\ InRange(r) /\ r.modifier = 0) =>
       /\ obj.pc # "invalid"
       /\ obj.self = r
       /\ obj.pc = "parsed" => obj.back = [roll |-> r, error |-> NoError]

C6_Witness ==
  /\ obj.pc = "parsed"
  /\ obj.args = <<1000, 1000, 0>>
  /\ obj.back.roll = [count |-> 1000, sides |-> 1000, modifier |-> 0]

\* C7: the canonical notation of a valid spec is the count in decimal, a
\* lowercase d, the sides in decimal, then "+" and the modifier when it is
\* positive, "-" and its magnitude when it is negative, nothing when it is 0.
C7_CanonicalForm ==
  obj.pc \in {"rendered", "parsed"} => IsCanonical(obj.notation, obj.self)

C7_Witness ==
  /\ obj.pc = "rendered"
  /\ obj.self = [count |-> 1, sides |-> 1000, modifier |-> -10]
  /\ obj.notation = <<"1", "d", "1", "0", "0", "0", "-", "1", "0">>

\* C8: as_text of a valid spec is "Roll {count} {sides} sided {noun}{suffix}"
\* with noun "die" exactly when count is 1, and the suffix ".", ", add
\* {modifier} to the result." or ", subtract {abs(modifier)} from the
\* result."; the explanation in a roll result is that sentence.
C8_Explanation ==
  LET c == calls[1] IN
    c.pc = "done" =>
      /\ c.handler = "explain_notation" => c.text = Explained(c.self)
      /\ c.handler = "roll" =>
           c.result.notation_explained = Explained(c.self)

C8_Witness ==
  /\ calls[1].pc = "done"
  /\ calls[1].handler = "roll"
  /\ calls[1].self = [count |-> 1, sides |-> 20, modifier |-> -10]

\* C9: a call's generator is advanced by that call's own draws and by
\* nothing else, and under every interleaving a seeded call returns the
\* result it returns when it runs alone.
C9_OwnRandomSource ==
  \A i \in Threads :
    LET c == calls[i] IN
      c.handler = "roll" /\ c.pc \in {"loop", "done"} =>
        /\ LET own == Replay(c.self, c.rng0, Len(c.rolls)) IN
             c.rng = own.rng /\ c.rolls = own.rolls
        /\ (c.pc = "done" /\ c.seed # <<>>) =>
             c.result = Alone(c.notation, c.seed)

C9_Witness ==
  /\ calls[1].pc = "loop" /\ Len(calls[1].rolls) = 1
  /\ calls[1].self.count = 2
  /\ calls[2].pc = "done" /\ calls[2].seed # <<>>
  /\ Len(calls[2].result.roll_results) = 2

\* C10: the notation of a roll result is the canonical notation of the
\* parsed spec, parsing it again gives that spec, and its canonical
\* notation is itself.
C10_Normalised ==
  LET c == calls[1] IN
    c.handler = "roll" /\ c.pc = "done" =>
      /\ IsCanonical(c.result.notation, c.self)
      /\ parse_notation(c.result.notation) = [roll |-> c.self,
                                              error |-> NoError]
      /\ _generate_notation(parse_notation(c.result.notation).roll)
           = c.result.notation

C10_Witness ==
  /\ calls[1].pc = "done"
  /\ calls[1].handler = "roll"
  /\ calls[1].notation
       = <<"\t", "\n", "0", "3", "D", "0", "2", "+", "0", "\n">>
  /\ calls[1].result.notation = <<"3", "d", "2">>

===========================================================================
